---------------------------- MODULE Spec2Model ----------------------------
(***************************************************************************)
(* Interior-ballistics simulator of crcarlson/cartridges:                  *)
(*   units.py       conversion constants                                   *)
(*   curves.py      sigmoid                                                *)
(*   cartridges.py  Cartridge (attributes, derived properties, sim) and    *)
(*                  the presets CCCIMiniMag, C22_Al, C9mm                  *)
(*                                                                         *)
(* Representation of the program's numbers.                                *)
(*  - Python floats are modelled as integers with IEEE special values:     *)
(*    Inf, -Inf and NaN.  Arithmetic saturates to +-Inf outside            *)
(*    -MaxFinite..MaxFinite, 0*Inf, Inf-Inf, 0/0 and pow of a negative      *)
(*    base with a fractional exponent give NaN, every comparison with NaN   *)
(*    is false.  Division rounds to the nearest integer.                    *)
(*  - Dimensionless factors (the sigmoid's value, the expansion ratio,     *)
(*    gama, u_cw, alpha_s, the 0.9 loss factor) are fixed-point numbers    *)
(*    in units of 1/One.                                                   *)
(*  - Physical quantities are integers in model units instead of SI:       *)
(*    length 0.01 in, mass 0.1 grain, pressure 0.1 ksi, area length^2,     *)
(*    force pressure*area.  The unit constants of units.py are given in    *)
(*    these units.                                                         *)
(*  - Time is counted in steps (Ts = 1).  The program's horizon of         *)
(*    Tf / Ts = 3000 steps is coarsened to Horizon steps, and durations    *)
(*    given in seconds are scaled with it (Seconds).                       *)
(***************************************************************************)
EXTENDS Integers, Sequences, FiniteSets

(***************************************************************************)
(* Bounds of the model.                                                    *)
(***************************************************************************)
\* number of coarsened time steps that make up the horizon Tf
Horizon == 20
\* number of attribute assignments a caller makes on one bundle
MaxAssign == 1

(***************************************************************************)
(* Floats.                                                                 *)
(***************************************************************************)
\* the float 1.0 in fixed point
One == 1000

Inf == 2^30
NaN == Inf + 1
MaxFinite == Inf - 1

Abs(a) == IF a < 0 THEN -a ELSE a
Sgn(a) == IF a < 0 THEN -1 ELSE 1
IsNaN(a) == a = NaN
IsInf(a) == a = Inf \/ a = -Inf
IsFinite(a) == -Inf < a /\ a < Inf

\* the quotient a / b rounded to the nearest integer, for a divisor b > 0
DivPos(a, b) == IF 2 * (a % b) >= b THEN a \div b + 1 ELSE a \div b
\* the same for any non-zero divisor
Div(a, b) == IF b > 0 THEN DivPos(a, b) ELSE DivPos(-a, -b)

FNeg(a) == IF IsNaN(a) THEN NaN ELSE -a

FAdd(a, b) ==
  IF IsNaN(a) \/ IsNaN(b) THEN NaN
  ELSE IF IsInf(a) THEN (IF IsInf(b) /\ b # a THEN NaN ELSE a)
  ELSE IF IsInf(b) THEN b
  ELSE IF a + b > MaxFinite THEN Inf
  ELSE IF a + b < -MaxFinite THEN -Inf
  ELSE a + b

FSub(a, b) == FAdd(a, FNeg(b))

FMul(a, b) ==
  IF IsNaN(a) \/ IsNaN(b) THEN NaN
  ELSE IF a = 0 \/ b = 0 THEN (IF IsInf(a) \/ IsInf(b) THEN NaN ELSE 0)
  ELSE IF IsInf(a) \/ IsInf(b) \/ Abs(a) > MaxFinite \div Abs(b)
       THEN Sgn(a) * Sgn(b) * Inf
  ELSE a * b

FDiv(a, b) ==
  IF IsNaN(a) \/ IsNaN(b) THEN NaN
  ELSE IF IsInf(a) THEN (IF IsInf(b) THEN NaN ELSE Sgn(a) * Sgn(b) * Inf)
  ELSE IF IsInf(b) THEN 0
  ELSE IF b = 0 THEN (IF a = 0 THEN NaN ELSE Sgn(a) * Inf)
  ELSE Div(a, b)

\* a * q for a fixed-point factor q
FMulQ(a, q) ==
  IF IsFinite(a) /\ IsFinite(q)
  THEN FAdd(FMul(a \div One, q), FDiv(FMul(a % One, q), One))
  ELSE FMul(a, q)

\* a / b as a fixed-point factor
FDivQ(a, b) == FDiv(FMul(One, a), b)

FLt(a, b) == ~IsNaN(a) /\ ~IsNaN(b) /\ a < b
FGt(a, b) == FLt(b, a)

(***************************************************************************)
(* exp and pow of the math library, in fixed point.                        *)
(***************************************************************************)
\* e^k for a natural number k
RECURSIVE ExpInt(_)
ExpInt(k) == IF k = 0 THEN One ELSE (ExpInt(k - 1) * 2718) \div One

\* e^(r/One) for 0 <= r < One: the Taylor series to the fifth power
ExpFrac(r) ==
  LET r2 == (r * r) \div One
      r3 == (r2 * r) \div One
      r4 == (r3 * r) \div One
      r5 == (r4 * r) \div One
  IN  One + r + r2 \div 2 + r3 \div 6 + r4 \div 24 + r5 \div 120

ExpPos(z) == (ExpInt(z \div One) * ExpFrac(z % One)) \div One

\* the largest exponent whose exp is finite in the model
ExpLimit == 7 * One

py_exp(z) ==
  IF IsNaN(z) THEN NaN
  ELSE IF z >= ExpLimit THEN Inf
  ELSE IF z <= -ExpLimit THEN 0
  ELSE IF z >= 0 THEN ExpPos(z)
  ELSE (One * One) \div ExpPos(-z)

\* the largest z in lo..hi with e^z <= r (e^lo <= r)
RECURSIVE LnSearch(_, _, _)
LnSearch(r, lo, hi) ==
  IF lo >= hi THEN lo
  ELSE LET mid == (lo + hi + 1) \div 2
       IN  IF py_exp(mid) <= r THEN LnSearch(r, mid, hi)
           ELSE LnSearch(r, lo, mid - 1)

\* ln of a finite r > 0
Ln(r) == IF r <= One THEN LnSearch(r, -ExpLimit, 0)
         ELSE LnSearch(r, 0, ExpLimit - 1)

\* pow(r, g) of a positive finite r
PowPos(r, g) == py_exp(FDiv(FMul(g, Ln(r)), One))

pow(r, g) ==
  IF IsNaN(r) \/ IsNaN(g) THEN NaN
  ELSE IF g = 0 THEN One
  ELSE IF r = 0 THEN (IF g > 0 THEN 0 ELSE Inf)
  ELSE IF r = Inf THEN (IF g > 0 THEN Inf ELSE 0)
  ELSE IF r < 0 THEN
         IF g % One # 0 THEN NaN
         ELSE IF r = -Inf THEN (IF g < 0 THEN 0
                                ELSE IF (g \div One) % 2 = 0 THEN Inf ELSE -Inf)
         ELSE IF (g \div One) % 2 = 0 THEN PowPos(-r, g)
         ELSE FNeg(PowPos(-r, g))
  ELSE PowPos(r, g)

(***************************************************************************)
(* curves.py                                                               *)
(***************************************************************************)
sigmoid(x, alpha, x_0) ==
  FDivQ(One, FAdd(One, py_exp(FNeg(FMul(alpha, FSub(x, x_0))))))

(***************************************************************************)
(* units.py, in model units                                                *)
(***************************************************************************)
inch == 100
ksi == 10
grains == 10

\* the float literal n/d times a unit
Lit(n, d, unit) == Div(n * unit, d)
\* n/d millimetres: mm = 0.001 m and inch = 0.0254 m
mm(n, d) == Lit(n * 10, d * 254, inch)
\* n megapascal: ksi = 6.89475908677537e6 Pa
MPa(n) == Lit(n * 1000, 6895, ksi)

(***************************************************************************)
(* The integrator's constants (Cartridge.sim)                              *)
(***************************************************************************)
Ts == 1
Tf == Horizon * Ts
N == Tf \div Ts
\* n microseconds on the coarsened time axis: Tf is 3.0e-3 s
Seconds(n) == Div(n * Tf, 3000)

(***************************************************************************)
(* cartridges.py: the bundles                                              *)
(***************************************************************************)
\* 6.0 / t_peak
BurnSteepness(t_peak) == FDivQ(6, t_peak)

Cartridge ==
  [cls        |-> "Cartridge",
   m_bullet   |-> -1,
   d_chamber  |-> -1,
   d_case     |-> -1,
   l_case     |-> -1,
   l_case_i   |-> -1,
   l_round    |-> -1,
   yield_case |-> MPa(200),
   uts_case   |-> MPa(550),
   gamma_case |-> MPa(97000),
   u_cw       |-> Lit(1, 10, One),
   p_peak     |-> 55 * ksi,
   t_peak     |-> Seconds(500),
   alpha_s    |-> BurnSteepness(Seconds(500)),
   gama       |-> Lit(13, 10, One)]

CCCIMiniMag ==
  [Cartridge EXCEPT
   !.cls       = "CCCIMiniMag",
   !.m_bullet  = 40 * grains,
   !.d_chamber = Lit(223, 1000, inch),
   !.d_case    = Lit(203, 1000, inch),
   !.l_case    = Lit(55, 100, inch),
   !.l_case_i  = Lit(50, 100, inch),
   !.l_round   = Lit(125, 100, inch),
   !.p_peak    = 55 * ksi,
   !.t_peak    = Seconds(500),
   !.alpha_s   = BurnSteepness(Seconds(500)),
   !.gama      = Lit(13, 10, One)]

C22_Al ==
  [CCCIMiniMag EXCEPT
   !.cls     = "C22_Al",
   !.p_peak  = 40 * ksi,
   !.t_peak  = Seconds(500),
   !.alpha_s = BurnSteepness(Seconds(500))]

C9mm ==
  [Cartridge EXCEPT
   !.cls       = "C9mm",
   !.m_bullet  = 115 * grains,
   !.d_chamber = mm(98, 10),
   !.d_case    = mm(903, 100),
   !.l_case    = mm(1915, 100),
   !.l_case_i  = mm(1500, 100),
   !.l_round   = mm(2969, 100),
   !.p_peak    = 55 * ksi,
   !.t_peak    = Seconds(150),
   !.alpha_s   = BurnSteepness(Seconds(150)),
   !.gama      = Lit(115, 100, One)]

\* the bundle a class's constructor returns
New(cls) ==
  CASE cls = "Cartridge"   -> Cartridge
    [] cls = "CCCIMiniMag" -> CCCIMiniMag
    [] cls = "C22_Al"      -> C22_Al
    [] cls = "C9mm"        -> C9mm

Classes == {"Cartridge", "CCCIMiniMag", "C22_Al", "C9mm"}

(***************************************************************************)
(* cartridges.py: the derived properties                                   *)
(***************************************************************************)
\* math.pi as the fraction PiNum / PiDen
PiNum == 22
PiDen == 7

a_chamber(self) == Div(PiNum * self.d_chamber * self.d_chamber, PiDen * 4)
\* a_case computed once in the constructor and never again (a cached value)
a_case_cached(self) ==
  Div(PiNum * New(self.cls).d_case * New(self.cls).d_case, PiDen * 4)
a_case(self) == Div(PiNum * self.d_case * self.d_case, PiDen * 4)
a_bullet(self) == Div(PiNum * self.d_chamber * self.d_chamber, PiDen)
a_cw(self) == Div(PiNum * self.d_case * self.l_case_i, PiDen)
v_case(self) == a_case(self) * self.l_case_i
t_case(self) == Div(self.d_chamber - self.d_case, 2)
p_yield(self) == Div(2 * self.yield_case * t_case(self), self.d_case)
p_uts(self) == Div(2 * self.uts_case * t_case(self), self.d_case)

Properties ==
  {"a_chamber", "a_case", "a_bullet", "a_cw", "v_case", "t_case", "p_yield", "p_uts"}

\* the value a read of a property returns
Get(self, prop) ==
  CASE prop = "a_chamber" -> a_chamber(self)
    [] prop = "a_case"    -> a_case(self)
    [] prop = "a_bullet"  -> a_bullet(self)
    [] prop = "a_cw"      -> a_cw(self)
    [] prop = "v_case"    -> v_case(self)
    [] prop = "t_case"    -> t_case(self)
    [] prop = "p_yield"   -> p_yield(self)
    [] prop = "p_uts"     -> p_uts(self)

(***************************************************************************)
(* cartridges.py: one iteration of the loop of Cartridge.sim               *)
(***************************************************************************)
\* x_dd = X[2,i] * self.a_case / self.m_bullet * 0.9
Acceleration(self, p) ==
  FMulQ(FDiv(FMul(p, a_case(self)), self.m_bullet), Lit(9, 10, One))

\* Combustion without the cutoff at the muzzle
CombustionNoCutoff(self, ti, x, lb) ==
  FMulQ(self.p_peak, sigmoid(ti, self.alpha_s, self.t_peak))

\* p_combust, set to 0 once the bullet is past the barrel
Combustion(self, ti, x, lb) ==
  IF FGt(x, lb) THEN 0
  ELSE FMulQ(self.p_peak, sigmoid(ti, self.alpha_s, self.t_peak))

\* Expansion with the volume ratio upside down
ExpansionInverted(self, x) ==
  pow(FDivQ(FAdd(v_case(self), FMul(x, a_case(self))), v_case(self)), self.gama)

\* the factor pow(v_case / (v_case + x*a_case), gama)
Expansion(self, x) ==
  pow(FDivQ(v_case(self), FAdd(v_case(self), FMul(x, a_case(self)))), self.gama)

\* p_k: the expanded gas combustion pressure
Expanded(self, p_combust, x) == FMulQ(p_combust, Expansion(self, x))

\* Friction that ignores the friction flag
FrictionAlways(self, friction, p_k) ==
  IF FLt(p_k, p_yield(self)) THEN 0
  ELSE FMulQ(FMul(FSub(p_k, p_yield(self)), a_cw(self)), self.u_cw)

\* F_friction: the case wall friction
Friction(self, friction, p_k) ==
  IF ~friction \/ FLt(p_k, p_yield(self)) THEN 0
  ELSE FMulQ(FMul(FSub(p_k, p_yield(self)), a_cw(self)), self.u_cw)

\* F_case before the clamp
RawForce(self, p_k, F_friction) == FSub(FMul(p_k, a_chamber(self)), F_friction)

\* Clamp left out
NoClamp(F) == F

\* if F_case < 0: F_case = 0
Clamp(F) == IF FLt(F, 0) THEN 0 ELSE F

\* The locals of one iteration.  Each value is computed once and handed on
\* as an argument, in the order of the statements of the loop body.
Locals(x_dd, p_combust, p_k, F_friction, F_raw) ==
  [x_dd       |-> x_dd,
   p_combust  |-> p_combust,
   p_k        |-> p_k,
   F_friction |-> F_friction,
   F_case     |-> Clamp(F_raw),
   clamped    |-> FLt(F_raw, 0)]

AfterFriction(self, x_dd, p_combust, p_k, F_friction) ==
  Locals(x_dd, p_combust, p_k, F_friction, RawForce(self, p_k, F_friction))

AfterExpansion(self, friction, x_dd, p_combust, p_k) ==
  AfterFriction(self, x_dd, p_combust, p_k, Friction(self, friction, p_k))

AfterCombustion(self, friction, x, x_dd, p_combust) ==
  AfterExpansion(self, friction, x_dd, p_combust, Expanded(self, p_combust, x))

\* the locals of iteration i, from the samples x and p of index i
Iteration(self, friction, lb, ti, x, p) ==
  AfterCombustion(self, friction, x, Acceleration(self, p), Combustion(self, ti, x, lb))

(***************************************************************************)
(* The state: one bundle, its caller, and one activation of sim.           *)
(***************************************************************************)
VARIABLES
  self,       \* the bundle: the attributes of the Cartridge object
  nassign,    \* number of attribute assignments made on it
  pc,         \* "idle": no call yet, "loop": inside sim, "done": sim returned
  friction,   \* sim's argument friction
  arg,        \* sim's argument l_barrel as passed: <<>> (omitted) or <<value>>
  l_barrel,   \* sim's local l_barrel
  i,          \* number of loop iterations executed: the next loop index
  t,          \* sim's time vector
  X,          \* sim's 4 x N array: rows x, x_d, pressure, F_case
  loc,        \* the locals of the latest iteration
  kept,       \* the trajectory of the preceding call, kept by the caller
  lastRead    \* the latest read of a derived property by the caller

vars == <<self, nassign, pc, friction, arg, l_barrel, i, t, X, loc, kept, lastRead>>

\* rows of X
RowX == 0
RowXd == 1
RowP == 2
RowF == 3
\* X[row, k]
At(A, row, k) == A[row][k + 1]

NoLocals ==
  [x_dd |-> 0, p_combust |-> 0, p_k |-> 0, F_friction |-> 0, F_case |-> 0,
   clamped |-> FALSE]

\* the values a caller assigns to the attributes
AttrValues ==
  [m_bullet   |-> {40 * grains, 115 * grains},
   d_chamber  |-> {Lit(223, 1000, inch), mm(98, 10)},
   d_case     |-> {Lit(203, 1000, inch), Lit(223, 1000, inch), mm(903, 100)},
   l_case_i   |-> {Lit(50, 100, inch), mm(1500, 100)},
   yield_case |-> {MPa(200), MPa(500)},
   uts_case   |-> {MPa(550), MPa(800)},
   u_cw       |-> {Lit(1, 10, One), One},
   p_peak     |-> {55 * ksi, 40 * ksi},
   t_peak     |-> {Seconds(500), Seconds(150), Seconds(1000)},
   gama       |-> {Lit(13, 10, One), Lit(115, 100, One), Lit(5, 10, One)}]

\* the barrel lengths a caller passes
BarrelLengths == {0, 2 * inch}

Init ==
  /\ self \in {New(cls) : cls \in Classes}
  /\ nassign = 0
  /\ pc = "idle"
  /\ friction = FALSE
  /\ arg = <<>>
  /\ l_barrel = 0
  /\ i = 0
  /\ t = <<>>
  /\ X = <<>>
  /\ loc = NoLocals
  /\ kept = <<>>
  /\ lastRead = <<>>

\* self.attr = v, between two calls; the caller drops the trajectories it
\* holds of the bundle as it was
Assign(attr, v) ==
  /\ pc \in {"idle", "done"}
  /\ nassign < MaxAssign
  /\ self[attr] # v
  /\ self' = [self EXCEPT ![attr] = v]
  /\ nassign' = nassign + 1
  /\ pc' = "idle"
  /\ friction' = FALSE
  /\ arg' = <<>>
  /\ l_barrel' = 0
  /\ i' = 0
  /\ t' = <<>>
  /\ X' = <<>>
  /\ loc' = NoLocals
  /\ kept' = <<>>
  /\ lastRead' = <<>>

\* the caller reads a derived property of the bundle it is about to simulate
Read(prop) ==
  /\ pc = "idle"
  /\ lastRead' = <<[prop |-> prop, value |-> Get(self, prop), of |-> self]>>
  /\ UNCHANGED <<self, nassign, pc, friction, arg, l_barrel, i, t, X, loc, kept>>

\* TimeVector starting at range(1,N)
TimeVectorFromOne == [k \in 1..(N - 1) |-> k * Ts]

\* t = np.array(range(0,N))*Ts
TimeVector == [k \in 1..N |-> (k - 1) * Ts]

\* if not l_barrel: l_barrel = 18 * u.inch
BarrelOf(a) == IF a = <<>> \/ a[1] = 0 THEN 18 * inch ELSE a[1]

\* sim(friction, l_barrel) up to the loop.  The caller keeps the trajectory
\* of the preceding call when it repeats that call with the other friction
\* flag, and drops it otherwise.
SimCall(fr, a) ==
  /\ pc \in {"idle", "done"}
  /\ pc' = "loop"
  /\ friction' = fr
  /\ arg' = a
  /\ l_barrel' = BarrelOf(a)
  /\ t' = TimeVector
  /\ X' = [row \in 0..3 |-> [k \in 1..N |-> 0]]
  /\ i' = 0
  /\ loc' = NoLocals
  /\ kept' = IF pc = "done" /\ a = arg /\ fr # friction
             THEN <<[friction |-> friction, l_barrel |-> l_barrel,
                     self |-> self, t |-> t, X |-> X]>>
             ELSE <<>>
  /\ lastRead' = <<>>
  /\ UNCHANGED <<self, nassign>>

\* Store that writes the pressure left after friction, F_case / a_chamber,
\* to the pressure row
StoreNetPressure(A, k, x, x_d, it) ==
  [A EXCEPT ![RowX][k + 2]  = FAdd(x, FMul(x_d, Ts)),
            ![RowXd][k + 2] = FAdd(x_d, FMul(it.x_dd, Ts)),
            ![RowP][k + 2]  = FDiv(it.F_case, a_chamber(self)),
            ![RowF][k + 2]  = it.F_case]

\* X[0,i+1] = x + x_d*Ts; X[1,i+1] = x_d + x_dd*Ts; X[2,i+1] = p_k;
\* X[3,i+1] = F_case
Store(A, k, x, x_d, it) ==
  [A EXCEPT ![RowX][k + 2]  = FAdd(x, FMul(x_d, Ts)),
            ![RowXd][k + 2] = FAdd(x_d, FMul(it.x_dd, Ts)),
            ![RowP][k + 2]  = it.p_k,
            ![RowF][k + 2]  = it.F_case]

Body(it) ==
  /\ loc' = it
  /\ X' = Store(X, i, At(X, RowX, i), At(X, RowXd, i), it)

\* one iteration of for i in range(N-1)
SimStep ==
  /\ pc = "loop"
  /\ i < N - 1
  /\ Body(Iteration(self, friction, l_barrel, t[i + 1], At(X, RowX, i), At(X, RowP, i)))
  /\ i' = i + 1
  /\ UNCHANGED <<self, nassign, pc, friction, arg, l_barrel, t, kept, lastRead>>

\* return (t, X)
SimReturn ==
  /\ pc = "loop"
  /\ i = N - 1
  /\ pc' = "done"
  /\ UNCHANGED <<self, nassign, friction, arg, l_barrel, i, t, X, loc, kept, lastRead>>

Next ==
  \/ \E attr \in DOMAIN AttrValues : \E v \in AttrValues[attr] : Assign(attr, v)
  \/ \E prop \in Properties : Read(prop)
  \/ \E fr \in BOOLEAN : \E a \in {<<>>} \cup {<<lb>> : lb \in BarrelLengths} : SimCall(fr, a)
  \/ SimStep
  \/ SimReturn

Spec == Init /\ [][Next]_vars

(***************************************************************************)
(* The properties.                                                         *)
(***************************************************************************)
\* a bundle that satisfies the constraints on its attributes
Valid(b) ==
  /\ b.m_bullet > 0
  /\ b.d_case > 0 /\ b.d_chamber >= b.d_case
  /\ b.l_case_i > 0 /\ b.l_case >= b.l_case_i
  /\ b.l_round > 0
  /\ b.yield_case > 0 /\ b.uts_case >= b.yield_case
  /\ b.gamma_case > 0
  /\ b.u_cw >= 0 /\ b.u_cw <= One
  /\ b.p_peak > 0
  /\ b.t_peak > 0
  /\ b.gama > 0

InSim == pc \in {"loop", "done"}
\* the written samples of the running or returned trajectory
Written == 0..i
Samples == 0..(N - 1)
NonNeg(a) == IsFinite(a) /\ a >= 0

\* C1: sim terminates and returns exactly N samples.  Every step taken
\* inside the loop is iteration i, with i counting up from 0, or the return
\* after iteration N - 2, so the loop ends after exactly N - 1 iterations;
\* the returned time vector has length N with t[k] = k * Ts, and each of the
\* four rows of X has length N.
C1_Returned ==
  pc = "done" =>
    /\ i = Tf \div Ts - 1
    /\ Len(t) = Tf \div Ts
    /\ \A k \in 0..(Tf \div Ts - 1) : t[k + 1] = k * Ts
    /\ DOMAIN X = 0..3
    /\ \A row \in 0..3 : Len(X[row]) = Tf \div Ts

C1_Progress ==
  /\ (pc # "loop" /\ pc' = "loop") => i' = 0
  /\ pc = "loop" =>
       \/ pc' = "loop" /\ i < Tf \div Ts - 1 /\ i' = i + 1
       \/ pc' = "done" /\ i = Tf \div Ts - 1 /\ i' = i

C1_SampleCount == [] C1_Returned /\ [][C1_Progress]_vars

C1_Witness ==
  /\ pc = "done" /\ Valid(self) /\ friction /\ arg = <<2 * inch>>
  /\ At(X, RowX, N - 1) > l_barrel

\* C2: a bundle whose m_bullet is the sentinel -1 makes sim fail before any
\* iteration is executed, and no trajectory is returned.
C2_SentinelRejected ==
  self.m_bullet = -1 => (i = 0 /\ pc # "done")

\* C3: for every barrel length the caller passes, an iteration whose
\* position x is beyond that length has p_combust = 0 and writes pressure 0
\* and force 0.
C3_CutoffAtPassedLength ==
  (InSim /\ i > 0 /\ Valid(self) /\ arg # <<>> /\ At(X, RowX, i - 1) > arg[1])
    => (loc.p_combust = 0 /\ At(X, RowP, i) = 0 /\ At(X, RowF, i) = 0)

\* C4: on a valid bundle every sample of the force row is >= 0.
C4_ForceNonNegative ==
  (InSim /\ Valid(self)) => \A k \in Samples : NonNeg(At(X, RowF, k))

C4_Witness ==
  /\ InSim /\ Valid(self) /\ friction
  /\ loc.clamped /\ loc.p_k > 0 /\ At(X, RowF, i) = 0

\* C5: on a valid bundle every sample has 0 <= pressure <= p_peak: the
\* position is never negative and the expansion factor never exceeds 1.
C5_PressureBounded ==
  (InSim /\ Valid(self)) =>
    /\ \A k \in Samples :
         /\ NonNeg(At(X, RowP, k)) /\ At(X, RowP, k) <= self.p_peak
         /\ NonNeg(At(X, RowX, k))
    /\ i > 0 => /\ NonNeg(Expansion(self, At(X, RowX, i - 1)))
                /\ Expansion(self, At(X, RowX, i - 1)) <= One

C5_Witness ==
  /\ InSim /\ Valid(self) /\ i > 0
  /\ At(X, RowX, i - 1) > 0
  /\ Expansion(self, At(X, RowX, i - 1)) < One
  /\ loc.p_combust > 0
  /\ At(X, RowP, i) > 0
  /\ At(X, RowP, i) < loc.p_combust

\* C6: without friction, on a valid bundle, the friction force is 0 in every
\* iteration, the clamp is never taken and every sample has
\* force = pressure * a_chamber.
C6_NoFrictionForce ==
  (InSim /\ Valid(self) /\ ~friction) =>
    /\ loc.F_friction = 0
    /\ ~loc.clamped
    /\ \A k \in Samples : At(X, RowF, k) = At(X, RowP, k) * a_chamber(self)

C6_Witness ==
  /\ pc = "done" /\ Valid(self) /\ ~friction
  /\ \E k \in Samples : At(X, RowP, k) > p_yield(self) /\ At(X, RowF, k) > 0

\* C7: after any assignments to the attributes, alpha_s is 6 / t_peak of
\* the current attributes.
C7_SteepnessFollowsDuration ==
  self.alpha_s = BurnSteepness(self.t_peak)

\* C8: each read of a derived property returns its formula on the values the
\* attributes have at the time of the read.
C8_DerivedFresh ==
  lastRead # <<>> =>
    LET b == lastRead[1].of
        v == lastRead[1].value
        prop == lastRead[1].prop
        area == Div(PiNum * b.d_case * b.d_case, PiDen * 4)
        wall == Div(b.d_chamber - b.d_case, 2)
    IN  /\ b = self
        /\ prop = "a_case" => v = area
        /\ prop = "v_case" => v = area * b.l_case_i
        /\ prop = "a_cw" => v = Div(PiNum * b.d_case * b.l_case_i, PiDen)
        /\ prop = "t_case" => v = wall
        /\ prop = "p_yield" => v = Div(2 * b.yield_case * wall, b.d_case)
        /\ prop = "p_uts" => v = Div(2 * b.uts_case * wall, b.d_case)

C8_Witness ==
  /\ lastRead # <<>>
  /\ lastRead[1].prop = "p_yield"
  /\ nassign > 0
  /\ self.d_case # New(self.cls).d_case
  /\ lastRead[1].value # p_yield(New(self.cls))

\* the first written sample whose position is beyond the barrel
Exited == {k \in Written : At(X, RowX, k) > l_barrel}
FirstExit == CHOOSE k \in Exited : \A j \in Exited : k <= j

\* C9: on a valid bundle position and velocity never decrease, and from the
\* first sample k beyond l_barrel on the position stays beyond it, pressure
\* and force are 0 from sample k + 1 on and the velocity keeps the value of
\* sample k + 1, which still includes the acceleration by the pressure of
\* sample k.
C9_ExitPermanent ==
  (InSim /\ Valid(self)) =>
    /\ \A k \in Written \ {0} :
         /\ At(X, RowX, k) >= At(X, RowX, k - 1)
         /\ At(X, RowXd, k) >= At(X, RowXd, k - 1)
    /\ Exited # {} =>
         /\ \A j \in Written : j >= FirstExit => At(X, RowX, j) > l_barrel
         /\ \A j \in Written : j >= FirstExit + 1 =>
              /\ At(X, RowP, j) = 0
              /\ At(X, RowF, j) = 0
              /\ At(X, RowXd, j) = At(X, RowXd, FirstExit + 1)
              /\ At(X, RowXd, j) =
                   At(X, RowXd, FirstExit)
                     + Acceleration(self, At(X, RowP, FirstExit)) * Ts

C9_Witness ==
  /\ pc = "done" /\ Valid(self)
  /\ Exited # {}
  /\ FirstExit < N - 3
  /\ At(X, RowP, FirstExit) > 0
  /\ At(X, RowXd, FirstExit + 1) > At(X, RowXd, FirstExit)

\* the two trajectories of a repeated call: with and without friction
WithFriction == IF friction THEN X ELSE kept[1].X
WithoutFriction == IF friction THEN kept[1].X ELSE X

\* C10: two calls on the same bundle and barrel length that differ in the
\* friction flag return the same positions, velocities and pressures, and at
\* every sample the force with friction is at most the force without, and
\* equal to it where the pressure is below p_yield.
C10_FrictionOnlyForce ==
  (pc = "done" /\ kept # <<>> /\ Valid(self)) =>
    /\ kept[1].self = self
    /\ kept[1].l_barrel = l_barrel
    /\ kept[1].friction # friction
    /\ kept[1].t = t
    /\ \A k \in Samples :
         /\ \A row \in {RowX, RowXd, RowP} :
              At(WithFriction, row, k) = At(WithoutFriction, row, k)
         /\ At(WithFriction, RowF, k) <= At(WithoutFriction, RowF, k)
         /\ At(X, RowP, k) < p_yield(self) =>
              At(WithFriction, RowF, k) = At(WithoutFriction, RowF, k)

C10_Witness ==
  /\ pc = "done" /\ kept # <<>> /\ Valid(self)
  /\ \E k \in Samples : At(WithFriction, RowF, k) < At(WithoutFriction, RowF, k)
  /\ \E k \in Samples :
       /\ At(X, RowP, k) > 0
       /\ At(X, RowP, k) < p_yield(self)
       /\ At(WithFriction, RowF, k) > 0

=============================================================================
